---- MODULE Spec2Model ----
(***************************************************************************)
(* Model of main.py: the upload handler upload_and_parse, process_resume,  *)
(* the redaction pipeline anonymize_data and the section extractor         *)
(* extract_info.  Text is a sequence of one-character strings; positions   *)
(* are 1-based and a match [s, e) runs from position s up to e - 1.        *)
(***************************************************************************)
EXTENDS Integers, Sequences, FiniteSets, TLC

\* ------------------------------------------------------------------------
\* Character classes of Python's re module (str patterns)
\* ------------------------------------------------------------------------
Digit == {"0", "1", "2", "3", "4", "5", "6", "7", "8", "9"}

UpperSeq == <<"A", "B", "C", "D", "E", "F", "G", "H", "I", "J", "K", "L", "M",
              "N", "O", "P", "Q", "R", "S", "T", "U", "V", "W", "X", "Y", "Z">>

LowerSeq == <<"a", "b", "c", "d", "e", "f", "g", "h", "i", "j", "k", "l", "m",
              "n", "o", "p", "q", "r", "s", "t", "u", "v", "w", "x", "y", "z">>

UpperCase == {UpperSeq[i] : i \in 1..26}

LowerCase == {LowerSeq[i] : i \in 1..26}

Letter == UpperCase \cup LowerCase

\* \w
WordChar == Letter \cup Digit \cup {"_"}

\* \s, and the characters str.strip() removes
Whitespace == {" ", "\t", "\n", "\r", "\f"}

\* str.lower() of each upper-case letter
LowerOf == [c \in UpperCase |-> LowerSeq[CHOOSE i \in 1..26 : UpperSeq[i] = c]]

\* re.IGNORECASE compares characters after case folding
ToLower(c) == IF c \in UpperCase THEN LowerOf[c] ELSE c

\* ------------------------------------------------------------------------
\* String helpers
\* ------------------------------------------------------------------------
\* the character at position i, or the empty string outside the text
CharAt(text, i) == IF i \in 1..Len(text) THEN text[i] ELSE ""

\* the literal pat occurs in text at position i
StartsWithAt(text, i, pat) ==
    /\ i >= 1
    /\ i + Len(pat) - 1 <= Len(text)
    /\ \A k \in 1..Len(pat) : text[i + k - 1] = pat[k]

\* the literal pat occurs in text at position i, ignoring case
StartsWithAtIgnoreCase(text, i, pat) ==
    /\ i >= 1
    /\ i + Len(pat) - 1 <= Len(text)
    /\ \A k \in 1..Len(pat) : ToLower(text[i + k - 1]) = ToLower(pat[k])

\* n characters of class cls start at position i
ClassAt(text, i, n, cls) ==
    /\ i + n - 1 <= Len(text)
    /\ \A k \in 0..(n - 1) : text[i + k] \in cls

\* length of the longest run of characters of cls starting at position i
RunLen(text, i, cls) ==
    CHOOSE n \in 0..(Len(text) - i + 1) :
        /\ \A k \in 0..(n - 1) : text[i + k] \in cls
        /\ CharAt(text, i + n) \notin cls

\* \b at position i: exactly one of the characters i-1 and i is a word character
Boundary(text, i) ==
    (CharAt(text, i - 1) \in WordChar) # (CharAt(text, i) \in WordChar)

\* the text with every match [s, e) of the list replaced by repl (re.sub)
RECURSIVE SubMatches(_, _, _, _)
SubMatches(text, matches, repl, from) ==
    IF matches = <<>>
    THEN SubSeq(text, from, Len(text))
    ELSE SubSeq(text, from, Head(matches).s - 1) \o repl
             \o SubMatches(text, Tail(matches), repl, Head(matches).e)

\* Python's str.replace(old, new): leftmost non-overlapping occurrences
RECURSIVE StrReplaceFrom(_, _, _, _)
StrReplaceFrom(text, old, new, i) ==
    IF i > Len(text)
    THEN <<>>
    ELSE IF StartsWithAt(text, i, old)
         THEN new \o StrReplaceFrom(text, old, new, i + Len(old))
         ELSE <<text[i]>> \o StrReplaceFrom(text, old, new, i + 1)

\* str.replace(old, new, 1): only the first occurrence is replaced
str_replace_first(text, old, new) ==
    LET hits == {i \in 1..Len(text) : StartsWithAt(text, i, old)}
    IN  IF hits = {} THEN text
        ELSE LET i == CHOOSE x \in hits : \A y \in hits : x <= y
             IN  SubSeq(text, 1, i - 1) \o new \o SubSeq(text, i + Len(old), Len(text))

str_replace(text, old, new) == StrReplaceFrom(text, old, new, 1)

\* ------------------------------------------------------------------------
\* anonymize_data: the email pass
\* ------------------------------------------------------------------------
EmailLocalClass == Letter \cup Digit \cup {".", "_", "%", "+", "-"}

EmailDomainClass == Letter \cup Digit \cup {".", "-"}

\* [A-Z|a-z] : the bar is a member of the class
EmailTldClass == Letter \cup {"|"}

email_placeholder == <<"*", "*", "*", "@", "*", "*", "*", ".", "c", "o", "m">>

\* the domain and top-level-domain lengths <<d, t>> that complete a match
\* whose domain starts at position p
EmailTails(text, p) ==
    {dt \in (1..RunLen(text, p, EmailDomainClass)) \X (2..(Len(text) - p)) :
        /\ CharAt(text, p + dt[1]) = "."
        /\ dt[2] <= RunLen(text, p + dt[1] + 1, EmailTldClass)
        /\ Boundary(text, p + dt[1] + 1 + dt[2])}

\* end (exclusive) of the match of email_pattern starting at s, 0 if none.
\* Greedy quantifiers with backtracking: the longest domain that lets the
\* rest match, then the longest top-level domain.
EmailMatchEnd(text, s) ==
    IF ~Boundary(text, s) THEN 0
    ELSE LET l == RunLen(text, s, EmailLocalClass)
             p == s + l + 1
         IN  IF l = 0 \/ CharAt(text, s + l) # "@" THEN 0
             ELSE LET tails == EmailTails(text, p)
                  IN  IF tails = {} THEN 0
                      ELSE LET d == CHOOSE x \in {dt[1] : dt \in tails} :
                                        \A y \in {dt[1] : dt \in tails} : y <= x
                               t == CHOOSE x \in {dt[2] : dt \in {z \in tails : z[1] = d}} :
                                        \A y \in {dt[2] : dt \in {z \in tails : z[1] = d}} : y <= x
                           IN  p + d + 1 + t

\* the non-overlapping matches of email_pattern, scanning from position i
RECURSIVE EmailScan(_, _)
EmailScan(text, i) ==
    IF i > Len(text) THEN <<>>
    ELSE LET e == EmailMatchEnd(text, i)
         IN  IF e = 0 THEN EmailScan(text, i + 1)
             ELSE <<[s |-> i, e |-> e]>> \o EmailScan(text, e)

\* re.findall(email_pattern, text)
EmailFindAll(text) ==
    LET ms == EmailScan(text, 1)
    IN  [k \in 1..Len(ms) |-> SubSeq(text, ms[k].s, ms[k].e - 1)]

\* re.sub(email_pattern, "***@***.com", text)
EmailSub(text) == SubMatches(text, EmailScan(text, 1), email_placeholder, 1)

\* ------------------------------------------------------------------------
\* anonymize_data: the phone pass
\* ------------------------------------------------------------------------
\* [-.\s]
PhoneSepClass == {"-", "."} \cup Whitespace

phone_placeholder == <<"X", "X", "X", "-", "X", "X", "X", "-", "X", "X", "X", "X">>

\* The ways group 1, (\+?\d{1,3}[-.\s]??)?, can match, in the order the
\* backtracking matcher tries them: <<plus, digits, separator>>.  The greedy
\* \+? and \d{1,3} take the most first, the lazy [-.\s]?? takes nothing
\* first, and the group as a whole is skipped last (<<0, 0, 0>>).
PhoneGroup1Order ==
    <<<<1, 3, 0>>, <<1, 3, 1>>, <<1, 2, 0>>, <<1, 2, 1>>,
      <<1, 1, 0>>, <<1, 1, 1>>, <<0, 3, 0>>, <<0, 3, 1>>,
      <<0, 2, 0>>, <<0, 2, 1>>, <<0, 1, 0>>, <<0, 1, 1>>,
      <<0, 0, 0>>>>

\* The ways group 2 can match, in the order tried:
\* <<1, lparen, rparen, sep1, sep2>> for the first alternative
\* \(?\d{3}\)?[-.\s]??\d{3}[-.\s]??\d{4} and <<0, 0, 0, 0, 0>> for \d{10}.
PhoneGroup2Order ==
    <<<<1, 1, 1, 0, 0>>, <<1, 1, 1, 0, 1>>, <<1, 1, 1, 1, 0>>, <<1, 1, 1, 1, 1>>,
      <<1, 1, 0, 0, 0>>, <<1, 1, 0, 0, 1>>, <<1, 1, 0, 1, 0>>, <<1, 1, 0, 1, 1>>,
      <<1, 0, 1, 0, 0>>, <<1, 0, 1, 0, 1>>, <<1, 0, 1, 1, 0>>, <<1, 0, 1, 1, 1>>,
      <<1, 0, 0, 0, 0>>, <<1, 0, 0, 0, 1>>, <<1, 0, 0, 1, 0>>, <<1, 0, 0, 1, 1>>,
      <<0, 0, 0, 0, 0>>>>

\* position after group 1 matched the way g at position s, 0 if it cannot
PhoneGroup1End(text, s, g) ==
    IF g[2] = 0 THEN s
    ELSE IF /\ (g[1] = 1 => CharAt(text, s) = "+")
            /\ ClassAt(text, s + g[1], g[2], Digit)
            /\ (g[3] = 1 => CharAt(text, s + g[1] + g[2]) \in PhoneSepClass)
         THEN s + g[1] + g[2] + g[3]
         ELSE 0

\* position after group 2 matched the way h at position p, 0 if it cannot
PhoneGroup2End(text, p, h) ==
    IF h[1] = 0
    THEN IF ClassAt(text, p, 10, Digit) THEN p + 10 ELSE 0
    ELSE LET p4 == p + h[2]
             p6 == p4 + 3 + h[3]
             p7 == p6 + h[4]
             p9 == p7 + 3 + h[5]
         IN  IF /\ (h[2] = 1 => CharAt(text, p) = "(")
                /\ ClassAt(text, p4, 3, Digit)
                /\ (h[3] = 1 => CharAt(text, p4 + 3) = ")")
                /\ (h[4] = 1 => CharAt(text, p6) \in PhoneSepClass)
                /\ ClassAt(text, p7, 3, Digit)
                /\ (h[5] = 1 => CharAt(text, p7 + 3) \in PhoneSepClass)
                /\ ClassAt(text, p9, 4, Digit)
             THEN p9 + 4
             ELSE 0

\* the complete matches of phone_pattern starting at s, in the order the
\* matcher finds them: [s, e) with group 2 starting at g
PhoneMatchesAt(text, s) ==
    LET ways == [k \in 1..(Len(PhoneGroup1Order) * Len(PhoneGroup2Order)) |->
                    LET g  == PhoneGroup1Order[((k - 1) \div Len(PhoneGroup2Order)) + 1]
                        h  == PhoneGroup2Order[((k - 1) % Len(PhoneGroup2Order)) + 1]
                        p  == PhoneGroup1End(text, s, g)
                        e  == IF p = 0 THEN 0 ELSE PhoneGroup2End(text, p, h)
                    IN  [s |-> s, g |-> p, e |-> e]]
    IN  SelectSeq(ways, LAMBDA m : m.e # 0 /\ Boundary(text, m.e))

\* the match of phone_pattern starting at s: the first way that succeeds
PhoneMatchAt(text, s) ==
    IF ~Boundary(text, s) \/ CharAt(text, s) \notin (Digit \cup {"+", "("})
    THEN [s |-> s, g |-> 0, e |-> 0]
    ELSE LET ms == PhoneMatchesAt(text, s)
         IN  IF ms = <<>> THEN [s |-> s, g |-> 0, e |-> 0] ELSE Head(ms)

\* the non-overlapping matches of phone_pattern, scanning from position i
RECURSIVE PhoneScan(_, _)
PhoneScan(text, i) ==
    IF i > Len(text) THEN <<>>
    ELSE LET m == PhoneMatchAt(text, i)
         IN  IF m.e = 0 THEN PhoneScan(text, i + 1)
             ELSE <<m>> \o PhoneScan(text, m.e)

\* phones_flat: group 2 of every match of re.findall(phone_pattern, text)
PhoneFindAll(text) ==
    LET ms == PhoneScan(text, 1)
    IN  [k \in 1..Len(ms) |-> SubSeq(text, ms[k].g, ms[k].e - 1)]

\* re.sub(phone_pattern, "XXX-XXX-XXXX", text)
PhoneSub(text) == SubMatches(text, PhoneScan(text, 1), phone_placeholder, 1)

\* ------------------------------------------------------------------------
\* extract_info
\* ------------------------------------------------------------------------
\* str.strip()
strip(s) ==
    LET a == 1 + RunLen(s, 1, Whitespace)
        kept == {j \in 1..Len(s) : s[j] \notin Whitespace}
        b == IF kept = {} THEN 0 ELSE CHOOSE j \in kept : \A k \in kept : k <= j
    IN  SubSeq(s, a, b)

\* str.split(c) for a one-character separator c
RECURSIVE split(_, _)
split(s, c) ==
    LET hits == {j \in 1..Len(s) : s[j] = c}
    IN  IF hits = {} THEN <<s>>
        ELSE LET k == CHOOSE j \in hits : \A h \in hits : j <= h
             IN  <<SubSeq(s, 1, k - 1)>> \o split(SubSeq(s, k + 1, Len(s)), c)

\* [x.strip() for x in raw.split(c) if x.strip()]
StrippedItems(raw, c) ==
    LET parts == split(raw, c)
    IN  SelectSeq([k \in 1..Len(parts) |-> strip(parts[k])], LAMBDA x : x # <<>>)

kw_skill == <<"S", "k", "i", "l", "l">>

kw_education == <<"E", "d", "u", "c", "a", "t", "i", "o", "n">>

kw_experience == <<"E", "x", "p", "e", "r", "i", "e", "n", "c", "e">>

kw_work_history == <<"W", "o", "r", "k", " ", "H", "i", "s", "t", "o", "r", "y">>

kw_certifications == <<"C", "e", "r", "t", "i", "f", "i", "c", "a", "t", "i", "o", "n", "s">>

\* [:\s]
HeaderSepClass == {":"} \cup Whitespace

\* $ without re.MULTILINE: at the end of the text, or just before a line
\* break that is the last character
DollarAt(text, r) ==
    \/ r = Len(text) + 1
    \/ r = Len(text) /\ text[r] = "\n"

\* (\n\n|$) at position r
BlankLineOrEndAt(text, r) ==
    StartsWithAt(text, r, <<"\n", "\n">>) \/ DollarAt(text, r)

\* (\n|$) at position r
LineBreakOrEndAt(text, r) ==
    CharAt(text, r) = "\n" \/ DollarAt(text, r)

\* a result of re.search; has_g1 is false when group(1) is None
NoMatch == [matched |-> FALSE, has_g1 |-> FALSE, g1 |-> <<>>]

\* the leftmost position where one of the keywords occurs, ignoring case; 0 if none
FirstKeywordAt(text, kws) ==
    LET hits == {i \in 1..Len(text) : \E w \in kws : StartsWithAtIgnoreCase(text, i, w)}
    IN  IF hits = {} THEN 0 ELSE CHOOSE i \in hits : \A h \in hits : i <= h

\* [:\s]*(.*?)<terminator> from position p, under re.DOTALL: the greedy class
\* takes its whole run (what follows can always match, at the end of the
\* text at the latest), the lazy group stops at the first terminator
CaptureFrom(text, p, blank) ==
    LET q == p + RunLen(text, p, HeaderSepClass)
        ends == {r \in q..(Len(text) + 1) :
                    IF blank THEN BlankLineOrEndAt(text, r) ELSE LineBreakOrEndAt(text, r)}
        r == CHOOSE x \in ends : \A y \in ends : x <= y
    IN  [matched |-> TRUE, has_g1 |-> TRUE, g1 |-> SubSeq(text, q, r - 1)]

\* re.search(r"Skills?[:\s]*(.*?)(\n|$)", text, re.IGNORECASE | re.DOTALL)
SkillsSearch(text) ==
    LET s == FirstKeywordAt(text, {kw_skill})
        p == s + Len(kw_skill)
    IN  IF s = 0 THEN NoMatch
        ELSE CaptureFrom(text, IF ToLower(CharAt(text, p)) = "s" THEN p + 1 ELSE p, FALSE)

\* the education pattern with the terminator of the skills pattern, (\n|$)
EducationSearch_LineBound(text) ==
    LET s == FirstKeywordAt(text, {kw_education})
    IN  IF s = 0 THEN NoMatch ELSE CaptureFrom(text, s + Len(kw_education), FALSE)

\* re.search(r"Education[:\s]*(.*?)(\n\n|$)", text, re.IGNORECASE | re.DOTALL)
EducationSearch(text) ==
    LET s == FirstKeywordAt(text, {kw_education})
    IN  IF s = 0 THEN NoMatch ELSE CaptureFrom(text, s + Len(kw_education), TRUE)

\* re.search(r"Experience|Work History[:\s]*(.*?)(\n\n|$)", text, ...): the
\* bar splits the whole pattern, so the first alternative is the bare word
\* Experience and has no group
ExperienceSearch(text) ==
    LET s == FirstKeywordAt(text, {kw_experience, kw_work_history})
    IN  IF s = 0 THEN NoMatch
        ELSE IF StartsWithAtIgnoreCase(text, s, kw_experience)
             THEN [matched |-> TRUE, has_g1 |-> FALSE, g1 |-> <<>>]
             ELSE CaptureFrom(text, s + Len(kw_work_history), TRUE)

\* re.search(r"Certifications[:\s]*(.*?)(\n\n|$)", text, re.IGNORECASE | re.DOTALL)
CertificationsSearch(text) ==
    LET s == FirstKeywordAt(text, {kw_certifications})
    IN  IF s = 0 THEN NoMatch ELSE CaptureFrom(text, s + Len(kw_certifications), TRUE)

\* the condition "m" alone: group(1) is not tested
SectionGuard_MatchOnly(m) == m.matched

\* the condition "m and m.group(1)": None and the empty string are falsy
SectionGuard(m) == m.matched /\ m.has_g1 /\ m.g1 # <<>>

\* the body of one "if": m.group(1).strip() raises AttributeError on None
SectionList(m, c) ==
    IF SectionGuard(m)
    THEN IF m.has_g1
         THEN [raised |-> FALSE, items |-> StrippedItems(strip(m.g1), c)]
         ELSE [raised |-> TRUE, items |-> <<>>]
    ELSE [raised |-> FALSE, items |-> <<>>]

\* extract_info(text); raised stands for an exception leaving the function
extract_info(text) ==
    LET sk == SectionList(SkillsSearch(text), ",")
        ed == SectionList(EducationSearch(text), "\n")
        ex == SectionList(ExperienceSearch(text), "\n")
        ce == SectionList(CertificationsSearch(text), "\n")
    IN  [raised |-> sk.raised \/ ed.raised \/ ex.raised \/ ce.raised,
         skills |-> sk.items,
         education |-> ed.items,
         experience |-> ex.items,
         certifications |-> ce.items]

\* ------------------------------------------------------------------------
\* anonymize_data: the entity pass
\* ------------------------------------------------------------------------
name_placeholder == <<"[", "C", "A", "N", "D", "I", "D", "A", "T", "E", " ", "N", "A", "M", "E", "]">>

address_placeholder == <<"[", "A", "D", "D", "R", "E", "S", "S", "]">>

\* the most entities one call of the tagger returns
MaxEnts == 2

\* the surface strings the tagger recognises as entities
EntityVocab == {<<"J", "a", "n", "e">>, <<"P", "a", "r", "i", "s">>}

\* the entity labels the tagger assigns
EntLabels == {"PERSON", "GPE", "LOC", "ORG"}

\* the whole-word occurrences of the vocabulary in the text
EntityOccurrences(text) ==
    {o \in [pos : 1..Len(text), text : EntityVocab] :
        /\ StartsWithAt(text, o.pos, o.text)
        /\ Boundary(text, o.pos)
        /\ Boundary(text, o.pos + Len(o.text))}

\* the entities of S in document order, labelled by lab
EntsInOrder(S, lab) ==
    [k \in 1..Cardinality(S) |->
        LET o == CHOOSE x \in S : Cardinality({y \in S : y.pos < x.pos}) = k - 1
        IN  [text |-> o.text, label |-> lab[o]]]

\* doc.ents of nlp(text): the tagger is an external statistical model, so
\* any choice of at most MaxEnts non-overlapping occurrences with any labels
TaggerResults(text) ==
    UNION {{EntsInOrder(S, lab) : lab \in [S -> EntLabels]} :
              S \in {T \in SUBSET EntityOccurrences(text) :
                        /\ Cardinality(T) <= MaxEnts
                        /\ \A x, y \in T : x.pos < y.pos => x.pos + Len(x.text) <= y.pos}}

\* [ent.text for ent in doc.ents if ent.label_ in labels]
EntTexts(ents, labels) ==
    LET sel == SelectSeq(ents, LAMBDA e : e.label \in labels)
    IN  [k \in 1..Len(sel) |-> sel[k].text]

\* for address in addresses: text = text.replace(address, "[ADDRESS]")
RECURSIVE ReplaceEach(_, _, _)
ReplaceEach(text, olds, new) ==
    IF olds = <<>> THEN text
    ELSE ReplaceEach(str_replace(text, Head(olds), new), Tail(olds), new)

\* ------------------------------------------------------------------------
\* Inputs
\* ------------------------------------------------------------------------
\* the concatenations of at most n fragments
RECURSIVE Concats(_, _)
Concats(frags, n) ==
    IF n = 0 THEN {<<>>}
    ELSE LET shorter == Concats(frags, n - 1)
         IN  shorter \cup {t \o f : t \in shorter, f \in frags}

\* fragments of resumes that carry personal data
PiiFragments ==
    {<<"a", "@", "b", ".", "c", "c">>,
     <<"5", "5", "5", "1", "2", "3", "4", "5", "6", "7">>,
     <<"J", "a", "n", "e">>,
     <<"P", "a", "r", "i", "s">>,
     <<" ">>,
     <<"1">>}

\* the most fragments in a text given to process_resume
MaxPieces == 4

PiiTexts == Concats(PiiFragments, MaxPieces)

\* fragments of resumes that carry section headers and items
SectionFragments ==
    {<<"E", "d", "u", "c", "a", "t", "i", "o", "n", ":">>,
     <<"e", "x", "p", "e", "r", "i", "e", "n", "c", "e", ":">>,
     <<"W", "o", "r", "k", " ", "H", "i", "s", "t", "o", "r", "y", ":">>,
     <<"C", "E", "R", "T", "I", "F", "I", "C", "A", "T", "I", "O", "N", "S", ":">>,
     <<"S", "k", "i", "l", "l", "s", ":", " ", "a", ",", "b", "\n">>,
     <<" ", "a", "\n">>,
     <<"\n">>}

\* the most fragments in a text given to extract_info
MaxSectionPieces == 4

SectionTexts == Concats(SectionFragments, MaxSectionPieces)

\* fragments of the documents uploaded to the handler
UploadFragments ==
    {<<"a", "@", "b", ".", "c", "c">>,
     <<"J", "a", "n", "e">>,
     <<" ">>,
     <<"E", "d", "u", "c", "a", "t", "i", "o", "n", ":">>,
     <<" ", "a", "\n">>}

\* the most fragments in an uploaded document
MaxUploadPieces == 2

\* what the decoders can make of a non-empty upload; the empty text also
\* stands for a decoder that failed (each decoder returns "" on any exception)
DecodedTexts == Concats(UploadFragments, MaxUploadPieces)

allowed_types ==
    {"application/pdf",
     "application/vnd.openxmlformats-officedocument.wordprocessingml.document",
     "image/jpeg",
     "image/png"}

\* await file.read(1024)
chunk_size == 1024

max_file_size_bytes == 5 * 1024 * 1024

\* the uploads: content type and size in bytes
Uploads ==
    {[content_type |-> "text/plain", size |-> 1000],
     [content_type |-> "application/pdf", size |-> 0],
     [content_type |-> "application/pdf", size |-> 1000],
     [content_type |-> "application/vnd.openxmlformats-officedocument.wordprocessingml.document",
      size |-> max_file_size_bytes],
     [content_type |-> "image/jpeg", size |-> max_file_size_bytes + 1],
     [content_type |-> "image/png", size |-> 2 * chunk_size]}

\* ------------------------------------------------------------------------
\* State
\* ------------------------------------------------------------------------
VARIABLES
    pc,               \* position of the request in upload_and_parse / process_resume
    upload,           \* the uploaded file: content type and size
    file_size_read,   \* bytes read from the upload so far
    temp_exists,      \* temp_file_path.exists()
    temp_created,     \* the temporary file has been created at some point
    exc,              \* the exception travelling up the stack, "none" if none
    response,         \* the HTTP status sent, "none" while the handler runs
    text,             \* the decoded text given to anonymize_data
    anonymized_text,  \* the local anonymized_text
    anonymized_info,  \* the dict anonymized_info
    doc_ents,         \* doc.ents
    extracted_data,   \* the dict returned by extract_info
    final_output,     \* the dict returned by process_resume
    log               \* the passes run so far, each with its input and output text

vars == <<pc, upload, file_size_read, temp_exists, temp_created, exc, response,
          text, anonymized_text, anonymized_info, doc_ents, extracted_data,
          final_output, log>>

fileVars == <<upload, file_size_read, temp_exists, temp_created>>

textVars == <<text, anonymized_text, anonymized_info, doc_ents, extracted_data,
              final_output, log>>

\* anonymized_info as created at the top of anonymize_data: no masked_name key
EmptyInfo ==
    [masked_emails |-> <<>>, masked_phones |-> <<>>, masked_addresses |-> <<>>,
     has_masked_name |-> FALSE, masked_name |-> <<>>]

\* extracted_data as created at the top of extract_info
EmptySections ==
    [skills |-> <<>>, education |-> <<>>, experience |-> <<>>, certifications |-> <<>>]

EmptyOutput ==
    [Skill_Set |-> <<>>, Experience_Summary |-> <<>>, Anonymized_Resume_Text |-> <<>>,
     Certifications_List |-> <<>>, Education_Records |-> <<>>]

LogEntry(pass, input, output) == [pass |-> pass, input |-> input, output |-> output]

\* a request arrives
Init ==
    /\ pc = "start"
    /\ upload \in Uploads
    /\ file_size_read = 0
    /\ temp_exists = FALSE
    /\ temp_created = FALSE
    /\ exc = "none"
    /\ response = "none"
    /\ text = <<>>
    /\ anonymized_text = <<>>
    /\ anonymized_info = EmptyInfo
    /\ doc_ents = <<>>
    /\ extracted_data = EmptySections
    /\ final_output = EmptyOutput
    /\ log = <<>>

\* ------------------------------------------------------------------------
\* upload_and_parse
\* ------------------------------------------------------------------------
\* if file.content_type not in allowed_types: raise HTTPException(400)
RejectContentType ==
    /\ pc = "start"
    /\ upload.content_type \notin allowed_types
    /\ exc' = "HTTP400"
    /\ response' = "400"
    /\ pc' = "finished"
    /\ UNCHANGED <<fileVars, textVars>>

\* temp_file_path.open("wb") creates the temporary file
OpenTempFile ==
    /\ pc = "start"
    /\ upload.content_type \in allowed_types
    /\ temp_exists' = TRUE
    /\ temp_created' = TRUE
    /\ pc' = "reading"
    /\ UNCHANGED <<upload, file_size_read, exc, response, textVars>>

\* temp_file_path.open("wb") raises: no file is created
OpenRaises ==
    /\ pc = "start"
    /\ upload.content_type \in allowed_types
    /\ exc' = "OSError"
    /\ pc' = "finally"
    /\ UNCHANGED <<fileVars, response, textVars>>

\* len(chunk) for chunk = await file.read(1024)
NextChunkLen ==
    IF upload.size - file_size_read < chunk_size
    THEN upload.size - file_size_read
    ELSE chunk_size

\* one turn of the loop that ends in buffer.write(chunk)
ReadChunk ==
    /\ pc = "reading"
    /\ NextChunkLen > 0
    /\ file_size_read + NextChunkLen <= max_file_size_bytes
    /\ file_size_read' = file_size_read + NextChunkLen
    /\ UNCHANGED <<pc, upload, temp_exists, temp_created, exc, response, textVars>>

\* one turn of the loop that ends in raise HTTPException(413)
SizeLimitExceeded ==
    /\ pc = "reading"
    /\ NextChunkLen > 0
    /\ file_size_read + NextChunkLen > max_file_size_bytes
    /\ file_size_read' = file_size_read + NextChunkLen
    /\ exc' = "HTTP413"
    /\ pc' = "finally"
    /\ UNCHANGED <<upload, temp_exists, temp_created, response, textVars>>

\* if not chunk: break; the with block closes the file
ReadEnd ==
    /\ pc = "reading"
    /\ NextChunkLen = 0
    /\ pc' = "decode"
    /\ UNCHANGED <<fileVars, exc, response, textVars>>

\* await file.read(1024) raises
ReadRaises ==
    /\ pc = "reading"
    /\ exc' = "ReadError"
    /\ pc' = "finally"
    /\ UNCHANGED <<fileVars, response, textVars>>

\* the status the framework sends for the exception leaving the handler
StatusOf(e) ==
    CASE e = "none" -> "200"
      [] e = "HTTP400" -> "400"
      [] e = "HTTP413" -> "413"
      [] OTHER -> "500"

\* the removal placed after process_resume instead of in a finally block
Finally_OnSuccessOnly ==
    /\ pc = "finally"
    /\ temp_exists' = IF exc = "none" THEN FALSE ELSE temp_exists
    /\ response' = StatusOf(exc)
    /\ pc' = "finished"
    /\ UNCHANGED <<upload, file_size_read, temp_created, exc, textVars>>

\* finally: if temp_file_path.exists(): os.remove(temp_file_path)
Finally ==
    /\ pc = "finally"
    /\ temp_exists' = FALSE
    /\ response' = StatusOf(exc)
    /\ pc' = "finished"
    /\ UNCHANGED <<upload, file_size_read, temp_created, exc, textVars>>

\* ------------------------------------------------------------------------
\* process_resume
\* ------------------------------------------------------------------------
\* text = extract_text_from_pdf / _docx / _image(file_path)
ExtractText ==
    /\ pc = "decode"
    /\ text' \in (IF upload.size = 0 THEN {<<>>} ELSE DecodedTexts)
    /\ pc' = "email"
    /\ UNCHANGED <<fileVars, exc, response, anonymized_text, anonymized_info,
                   doc_ents, extracted_data, final_output, log>>

\* the email pass of anonymize_data
EmailPass ==
    /\ pc = "email"
    /\ anonymized_info' = [EmptyInfo EXCEPT !.masked_emails = EmailFindAll(text)]
    /\ anonymized_text' = EmailSub(text)
    /\ log' = Append(log, LogEntry("email", text, anonymized_text'))
    /\ pc' = "phone"
    /\ UNCHANGED <<fileVars, exc, response, text, doc_ents, extracted_data, final_output>>

\* the phone pass run on the raw text instead of the output of the email pass
PhonePass_OnRawText ==
    /\ pc = "phone"
    /\ anonymized_info' = [anonymized_info EXCEPT !.masked_phones = PhoneFindAll(text)]
    /\ anonymized_text' = PhoneSub(text)
    /\ log' = Append(log, LogEntry("phone", text, anonymized_text'))
    /\ pc' = "tagger"
    /\ UNCHANGED <<fileVars, exc, response, text, doc_ents, extracted_data, final_output>>

\* the phone pass of anonymize_data
PhonePass ==
    /\ pc = "phone"
    /\ anonymized_info' = [anonymized_info EXCEPT
                              !.masked_phones = PhoneFindAll(anonymized_text)]
    /\ anonymized_text' = PhoneSub(anonymized_text)
    /\ log' = Append(log, LogEntry("phone", anonymized_text, anonymized_text'))
    /\ pc' = "tagger"
    /\ UNCHANGED <<fileVars, exc, response, text, doc_ents, extracted_data, final_output>>

\* doc = nlp(anonymized_text) returns
TaggerReturns ==
    /\ pc = "tagger"
    /\ doc_ents' \in TaggerResults(anonymized_text)
    /\ log' = Append(log, LogEntry("tagger", anonymized_text, anonymized_text))
    /\ pc' = "name"
    /\ UNCHANGED <<fileVars, exc, response, text, anonymized_text, anonymized_info,
                   extracted_data, final_output>>

\* doc = nlp(anonymized_text) raises; nothing in anonymize_data,
\* process_resume or upload_and_parse catches it
TaggerRaises ==
    /\ pc = "tagger"
    /\ exc' = "TaggerError"
    /\ log' = Append(log, LogEntry("tagger", anonymized_text, anonymized_text))
    /\ pc' = "finally"
    /\ UNCHANGED <<fileVars, response, text, anonymized_text, anonymized_info,
                   doc_ents, extracted_data, final_output>>

\* masked_name recorded on every run, as the empty string when there is no name
NamePass_AlwaysRecords ==
    /\ pc = "name"
    /\ LET names == EntTexts(doc_ents, {"PERSON"})
       IN  IF names # <<>>
           THEN /\ anonymized_text' = str_replace(anonymized_text, names[1], name_placeholder)
                /\ anonymized_info' = [anonymized_info EXCEPT
                                          !.has_masked_name = TRUE,
                                          !.masked_name = names[1]]
           ELSE /\ anonymized_text' = anonymized_text
                /\ anonymized_info' = [anonymized_info EXCEPT !.has_masked_name = TRUE]
    /\ log' = Append(log, LogEntry("name", anonymized_text, anonymized_text'))
    /\ pc' = "address"
    /\ UNCHANGED <<fileVars, exc, response, text, doc_ents, extracted_data, final_output>>

\* names = [...PERSON...]; if names: replace names[0], record masked_name
NamePass ==
    /\ pc = "name"
    /\ LET names == EntTexts(doc_ents, {"PERSON"})
       IN  IF names # <<>>
           THEN /\ anonymized_text' = str_replace(anonymized_text, names[1], name_placeholder)
                /\ anonymized_info' = [anonymized_info EXCEPT
                                          !.has_masked_name = TRUE,
                                          !.masked_name = names[1]]
           ELSE UNCHANGED <<anonymized_text, anonymized_info>>
    /\ log' = Append(log, LogEntry("name", anonymized_text, anonymized_text'))
    /\ pc' = "address"
    /\ UNCHANGED <<fileVars, exc, response, text, doc_ents, extracted_data, final_output>>

\* the address pass with the label test ent.label_ == "GPE"
AddressPass_GpeOnly ==
    /\ pc = "address"
    /\ LET addresses == EntTexts(doc_ents, {"GPE"})
       IN  /\ anonymized_text' = ReplaceEach(anonymized_text, addresses, address_placeholder)
           /\ anonymized_info' = [anonymized_info EXCEPT !.masked_addresses = addresses]
    /\ log' = Append(log, LogEntry("address", anonymized_text, anonymized_text'))
    /\ pc' = "extract"
    /\ UNCHANGED <<fileVars, exc, response, text, doc_ents, extracted_data, final_output>>

\* addresses = [...GPE, LOC...]; replace each in turn; record masked_addresses
AddressPass ==
    /\ pc = "address"
    /\ LET addresses == EntTexts(doc_ents, {"GPE", "LOC"})
       IN  /\ anonymized_text' = ReplaceEach(anonymized_text, addresses, address_placeholder)
           /\ anonymized_info' = [anonymized_info EXCEPT !.masked_addresses = addresses]
    /\ log' = Append(log, LogEntry("address", anonymized_text, anonymized_text'))
    /\ pc' = "extract"
    /\ UNCHANGED <<fileVars, exc, response, text, doc_ents, extracted_data, final_output>>

\* extracted_info = extract_info(anonymized_text)
ExtractInfo ==
    /\ pc = "extract"
    /\ LET r == extract_info(anonymized_text)
       IN  IF r.raised
           THEN /\ exc' = "AttributeError"
                /\ pc' = "finally"
                /\ UNCHANGED extracted_data
           ELSE /\ extracted_data' = [skills |-> r.skills,
                                      education |-> r.education,
                                      experience |-> r.experience,
                                      certifications |-> r.certifications]
                /\ pc' = "output"
                /\ UNCHANGED exc
    /\ log' = Append(log, LogEntry("extract", anonymized_text, anonymized_text))
    /\ UNCHANGED <<fileVars, response, text, anonymized_text, anonymized_info,
                   doc_ents, final_output>>

\* final_output: combined_data mapped through output_schema_template
BuildOutput ==
    /\ pc = "output"
    /\ final_output' = [Skill_Set |-> extracted_data.skills,
                        Experience_Summary |-> extracted_data.experience,
                        Anonymized_Resume_Text |-> anonymized_text,
                        Certifications_List |-> extracted_data.certifications,
                        Education_Records |-> extracted_data.education]
    /\ pc' = "finally"
    /\ UNCHANGED <<fileVars, exc, response, text, anonymized_text, anonymized_info,
                   doc_ents, extracted_data, log>>

\* ------------------------------------------------------------------------
\* Specifications
\* ------------------------------------------------------------------------
Next ==
    \/ RejectContentType
    \/ OpenTempFile
    \/ OpenRaises
    \/ ReadChunk
    \/ SizeLimitExceeded
    \/ ReadEnd
    \/ ReadRaises
    \/ ExtractText
    \/ EmailPass
    \/ PhonePass
    \/ TaggerReturns
    \/ TaggerRaises
    \/ NamePass
    \/ AddressPass
    \/ ExtractInfo
    \/ BuildOutput
    \/ Finally

\* one request, from its arrival to its response
Spec == Init /\ [][Next]_vars

\* process_resume is entered with a decoded text that carries personal data
InitProcess ==
    /\ pc = "email"
    /\ upload = [content_type |-> "application/pdf", size |-> 1000]
    /\ file_size_read = 1000
    /\ temp_exists = TRUE
    /\ temp_created = TRUE
    /\ exc = "none"
    /\ response = "none"
    /\ text \in PiiTexts
    /\ anonymized_text = <<>>
    /\ anonymized_info = EmptyInfo
    /\ doc_ents = <<>>
    /\ extracted_data = EmptySections
    /\ final_output = EmptyOutput
    /\ log = <<>>

NextProcess ==
    \/ EmailPass
    \/ PhonePass
    \/ TaggerReturns
    \/ TaggerRaises
    \/ NamePass
    \/ AddressPass
    \/ ExtractInfo
    \/ BuildOutput
    \/ Finally

SpecProcess == InitProcess /\ [][NextProcess]_vars

\* extract_info is entered with a text that carries section headers
InitExtract ==
    /\ pc = "extract"
    /\ upload = [content_type |-> "application/pdf", size |-> 1000]
    /\ file_size_read = 1000
    /\ temp_exists = TRUE
    /\ temp_created = TRUE
    /\ exc = "none"
    /\ response = "none"
    /\ text \in SectionTexts
    /\ anonymized_text = text
    /\ anonymized_info = EmptyInfo
    /\ doc_ents = <<>>
    /\ extracted_data = EmptySections
    /\ final_output = EmptyOutput
    /\ log = <<>>

NextExtract ==
    \/ ExtractInfo
    \/ BuildOutput

SpecExtract == InitExtract /\ [][NextExtract]_vars

\* ------------------------------------------------------------------------
\* Reference definitions used by the properties
\* ------------------------------------------------------------------------
\* pat occurs somewhere in t
Occurs(t, pat) == \E i \in 1..Len(t) : StartsWithAt(t, i, pat)

\* the pieces of t between the leftmost non-overlapping occurrences of pat
RECURSIVE RefSplitOn(_, _)
RefSplitOn(t, pat) ==
    LET hits == {i \in 1..Len(t) : StartsWithAt(t, i, pat)}
    IN  IF hits = {} THEN <<t>>
        ELSE LET i == CHOOSE x \in hits : \A y \in hits : x <= y
             IN  <<SubSeq(t, 1, i - 1)>> \o RefSplitOn(SubSeq(t, i + Len(pat), Len(t)), pat)

\* the pieces joined by sep
RECURSIVE RefJoin(_, _)
RefJoin(pieces, sep) ==
    IF Len(pieces) = 1 THEN pieces[1]
    ELSE pieces[1] \o sep \o RefJoin(Tail(pieces), sep)

\* t with every occurrence of old replaced by new
RefReplaceAll(t, old, new) == RefJoin(RefSplitOn(t, old), new)

\* t with every occurrence of each of olds, taken in turn, replaced by new
RECURSIVE RefReplaceInTurn(_, _, _, _)
RefReplaceInTurn(t, olds, new, k) ==
    IF k > Len(olds) THEN t
    ELSE RefReplaceInTurn(RefReplaceAll(t, olds[k], new), olds, new, k + 1)

\* the surface strings of the entities k.. of ents whose label is in labels
RECURSIVE RefSurfaces(_, _, _)
RefSurfaces(ents, labels, k) ==
    IF k > Len(ents) THEN <<>>
    ELSE (IF ents[k].label \in labels THEN <<ents[k].text>> ELSE <<>>)
             \o RefSurfaces(ents, labels, k + 1)

\* s without its leading and trailing whitespace
RECURSIVE RefTrim(_)
RefTrim(s) ==
    IF s = <<>> THEN s
    ELSE IF Head(s) \in Whitespace THEN RefTrim(Tail(s))
    ELSE IF s[Len(s)] \in Whitespace THEN RefTrim(SubSeq(s, 1, Len(s) - 1))
    ELSE s

\* the trimmed non-empty lines of s, from position i on, cur being the line so far
RECURSIVE RefLines(_, _, _)
RefLines(s, i, cur) ==
    IF i > Len(s) \/ s[i] = "\n"
    THEN (IF RefTrim(cur) = <<>> THEN <<>> ELSE <<RefTrim(cur)>>)
             \o (IF i > Len(s) THEN <<>> ELSE RefLines(s, i + 1, <<>>))
    ELSE RefLines(s, i + 1, Append(cur, s[i]))

\* t in lower case
RefLower(t) == [i \in 1..Len(t) |-> ToLower(t[i])]

\* the positions where the header kw occurs in t, ignoring case
RefHeaderHits(t, kw) ==
    LET lt == RefLower(t)
        lkw == RefLower(kw)
    IN  {i \in 1..(Len(t) - Len(kw) + 1) : SubSeq(lt, i, i + Len(kw) - 1) = lkw}

\* the first position from i on that holds neither a colon nor whitespace
RECURSIVE RefSkipSeparators(_, _)
RefSkipSeparators(t, i) ==
    IF i <= Len(t) /\ t[i] \in ({":"} \cup Whitespace)
    THEN RefSkipSeparators(t, i + 1)
    ELSE i

\* the text between the header that ends before position p (with its colon
\* and whitespace) and the next blank line, or the end of the text
RefBodyAfter(t, p) ==
    LET start == RefSkipSeparators(t, p)
        blanks == {r \in start..(Len(t) - 1) : t[r] = "\n" /\ t[r + 1] = "\n"}
        stop == IF blanks = {} THEN Len(t) + 1
                ELSE CHOOSE r \in blanks : \A x \in blanks : r <= x
    IN  SubSeq(t, start, stop - 1)

\* the items of the section introduced by the first occurrence of kw
RefSectionItems(t, kw) ==
    LET hits == RefHeaderHits(t, kw)
    IN  IF hits = {} THEN <<>>
        ELSE LET h == CHOOSE i \in hits : \A x \in hits : i <= x
             IN  RefLines(RefBodyAfter(t, h + Len(kw)), 1, <<>>)

\* where the first header among "Experience" and "Work History" ends, 0 if none
RefExperienceHeaderEnd(t) ==
    LET he == RefHeaderHits(t, kw_experience)
        hw == RefHeaderHits(t, kw_work_history)
        h == CHOOSE i \in he \cup hw : \A x \in he \cup hw : i <= x
    IN  IF he \cup hw = {} THEN 0
        ELSE IF h \in he THEN h + Len(kw_experience) ELSE h + Len(kw_work_history)

\* the passes of one run, in order
PassOrder == <<"email", "phone", "tagger", "name", "address", "extract">>

\* ------------------------------------------------------------------------
\* Properties
\* ------------------------------------------------------------------------
\* C1: when anonymize_data has returned, no string recorded in masked_emails,
\* masked_phones or masked_name occurs verbatim in the anonymized text.
C1_NoLeak ==
    pc = "extract" =>
        /\ \A k \in 1..Len(anonymized_info.masked_emails) :
               ~Occurs(anonymized_text, anonymized_info.masked_emails[k])
        /\ \A k \in 1..Len(anonymized_info.masked_phones) :
               ~Occurs(anonymized_text, anonymized_info.masked_phones[k])
        /\ anonymized_info.has_masked_name =>
               ~Occurs(anonymized_text, anonymized_info.masked_name)

\* C2: when the tagger call fails, the request still finishes with a result
\* that carries the text with only the email and phone substitutions; the
\* failure does not leave the pipeline.
C2_DegradedMode ==
    (pc = "finished" /\ Len(log) >= 3 /\ doc_ents = <<>> /\ exc = "TaggerError") =>
        /\ response = "200"
        /\ final_output.Anonymized_Resume_Text = log[2].output

\* C3: the email pass runs first on the raw text, the phone pass on its
\* output, the tagger once on the output of the phone pass and before the
\* name replacement, the name replacement before the address replacements,
\* and section extraction on the fully anonymized text.
C3_PassOrdering ==
    /\ Len(log) <= Len(PassOrder)
    /\ \A k \in 1..Len(log) : log[k].pass = PassOrder[k]
    /\ Len(log) >= 1 => log[1].input = text
    /\ \A k \in 2..Len(log) : log[k].input = log[k - 1].output
    /\ Len(log) >= 3 => log[3].output = log[3].input
    /\ Len(log) >= 6 => log[6].input = anonymized_text /\ log[6].input = log[5].output
    /\ pc \in {"name", "address", "extract", "output"} => Len(log) = Len(PassOrder) -
           (CASE pc = "name" -> 3 [] pc = "address" -> 2 [] pc = "extract" -> 1 [] OTHER -> 0)
    /\ (pc \in {"finally", "finished"} /\ exc = "none") => Len(log) = Len(PassOrder)

C3_Witness ==
    /\ pc = "output"
    /\ Len(log) = 6
    /\ anonymized_info.masked_emails # <<>>
    /\ anonymized_info.masked_phones # <<>>
    /\ log[1].output # log[1].input
    /\ log[2].output # log[2].input

\* C4: when neither matcher finds a match and the tagger returns no PERSON
\* and no location span, the anonymized text is the input and the audit
\* record has empty lists and no candidate name.
C4_Boundary ==
    (/\ pc = "extract"
     /\ EmailFindAll(text) = <<>>
     /\ PhoneFindAll(text) = <<>>
     /\ \A k \in 1..Len(doc_ents) : doc_ents[k].label \notin {"PERSON", "GPE", "LOC"}) =>
        /\ anonymized_text = text
        /\ anonymized_info.masked_emails = <<>>
        /\ anonymized_info.masked_phones = <<>>
        /\ anonymized_info.masked_addresses = <<>>
        /\ ~anonymized_info.has_masked_name

C4_Witness ==
    /\ pc = "extract"
    /\ EmailFindAll(text) = <<>>
    /\ PhoneFindAll(text) = <<>>
    /\ doc_ents # <<>>
    /\ \A k \in 1..Len(doc_ents) : doc_ents[k].label = "ORG"
    /\ anonymized_text = text

\* C5: when the tagger returns a PERSON span, the first one is recorded as
\* masked_name and every occurrence of its surface string in the post-phone
\* text is replaced by [CANDIDATE NAME]; no other PERSON span is recorded or
\* replaced by the name pass.
C5_NameHandling ==
    (Len(log) >= 4 /\ \E k \in 1..Len(doc_ents) : doc_ents[k].label = "PERSON") =>
        LET first == CHOOSE k \in 1..Len(doc_ents) :
                        /\ doc_ents[k].label = "PERSON"
                        /\ \A j \in 1..(k - 1) : doc_ents[j].label # "PERSON"
        IN  /\ anonymized_info.has_masked_name
            /\ anonymized_info.masked_name = doc_ents[first].text
            /\ log[4].input = log[2].output
            /\ log[4].output =
                   RefReplaceAll(log[2].output, doc_ents[first].text, name_placeholder)

C5_Witness ==
    /\ Len(log) >= 4
    /\ Len(doc_ents) = 1
    /\ doc_ents[1].label = "PERSON"
    /\ Len(RefSplitOn(log[4].input, doc_ents[1].text)) = 3
    /\ Len(RefSplitOn(log[4].output, name_placeholder)) = 3

\* C6: every GPE or LOC span, in document order and with duplicates, is
\* recorded in masked_addresses, and every occurrence of each surface string
\* still present when its turn comes is replaced by [ADDRESS].
C6_AddressHandling ==
    Len(log) >= 5 =>
        /\ anonymized_info.masked_addresses = RefSurfaces(doc_ents, {"GPE", "LOC"}, 1)
        /\ log[5].output =
               RefReplaceInTurn(log[4].output, RefSurfaces(doc_ents, {"GPE", "LOC"}, 1),
                                address_placeholder, 1)

C6_Witness ==
    /\ Len(log) >= 5
    /\ Len(anonymized_info.masked_addresses) = 2
    /\ anonymized_info.masked_addresses[1] = anonymized_info.masked_addresses[2]
    /\ doc_ents[1].label # doc_ents[2].label
    /\ Len(RefSplitOn(log[5].output, address_placeholder)) = 3

\* C7: education and certifications are the trimmed non-empty lines between
\* the first occurrence of the header (with its colon and whitespace) and the
\* next blank line or the end of the text.
C7_SectionCapture ==
    pc # "extract" =>
        /\ extracted_data.education = RefSectionItems(text, kw_education)
        /\ extracted_data.certifications = RefSectionItems(text, kw_certifications)

C7_Witness ==
    /\ pc = "output"
    /\ text = <<"E", "d", "u", "c", "a", "t", "i", "o", "n", ":", " ", "a", "\n", "\n", " ", "a", "\n">>
    /\ extracted_data.education = <<<<"a">>>>

\* C8: when the text has the header Experience or Work History followed by a
\* non-empty body, experience is the trimmed non-empty lines of that body.
C8_ExperienceAlternatives ==
    (pc # "extract" /\ RefExperienceHeaderEnd(text) # 0
       /\ RefBodyAfter(text, RefExperienceHeaderEnd(text)) # <<>>) =>
        extracted_data.experience =
            RefLines(RefBodyAfter(text, RefExperienceHeaderEnd(text)), 1, <<>>)

\* C9: extract_info never fails: it returns the four lists, and a section
\* whose header does not occur is the empty list.
C9_NeverFails ==
    pc # "extract" =>
        /\ exc = "none"
        /\ DOMAIN extracted_data = {"skills", "education", "experience", "certifications"}
        /\ \A key \in DOMAIN extracted_data :
               DOMAIN extracted_data[key] = 1..Len(extracted_data[key])
        /\ RefHeaderHits(text, kw_skill) = {} => extracted_data.skills = <<>>
        /\ RefHeaderHits(text, kw_education) = {} => extracted_data.education = <<>>
        /\ (RefHeaderHits(text, kw_experience) = {} /\ RefHeaderHits(text, kw_work_history) = {})
               => extracted_data.experience = <<>>
        /\ RefHeaderHits(text, kw_certifications) = {} => extracted_data.certifications = <<>>

C9_Witness ==
    /\ pc = "output"
    /\ exc = "none"
    /\ RefHeaderHits(text, kw_experience) # {}
    /\ RefHeaderHits(text, kw_work_history) = {}
    /\ extracted_data.experience = <<>>

\* C10: when the handler has finished, the temporary file does not exist, and
\* a request rejected for its content type never created one.
C10_TempFileCleanup ==
    /\ pc = "finished" => ~temp_exists
    /\ response = "400" => ~temp_created

C10_Witness ==
    /\ pc = "finished"
    /\ temp_created
    /\ exc = "HTTP413"
    /\ ~temp_exists

====
